---- MODULE Spec2Model ----
(***************************************************************************)
(* Model of the serial port session of shasderias/serial.                  *)
(*                                                                         *)
(* Two backends share one port contract:                                   *)
(*   - the polling backend   (serial_posix.go):  non-blocking unix.Read /  *)
(*     unix.Write in a retry loop, a closing flag and a sync.RWMutex;      *)
(*   - the overlapped backend (serial_windows.go): ReadFile / WriteFile    *)
(*     with reprogrammed COMMTIMEOUTS and GetOverlappedResult.             *)
(*                                                                         *)
(* Time is kept relative to the clock: a deadline is either the zero       *)
(* time.Time or an offset in milliseconds from "now"; Tick lets one        *)
(* millisecond pass and ages every stored deadline.  An offset of -MaxPast *)
(* stands for "MaxPast milliseconds or more in the past".                  *)
(***************************************************************************)
EXTENDS Integers, FiniteSets, Sequences, TLC

\* ------------------------------------------------------------------ bounds
MaxLen == 2
MaxAvail == 1
MaxPast == 1
MaxFuture == 1
MaxCount == 2

\* ------------------------------------------------------------- threads
\* A thread stands for one call of Read, Write or Close on the one port;
\* the calls start at any time, so they run one after another or overlap.
Readers == {"r1"}
Writers == {"w1"}
Closers == {"c1", "c2"}
IoThreads == Readers \cup Writers
Threads == IoThreads \cup Closers

NoThread == "none"

\* The calls that take part in one run: a Read and a Write with one Close,
\* or one of them with two Close calls.  A thread outside the run is "off".
Scenarios == {{"r1", "w1", "c1"}, {"r1", "c1", "c2"}, {"w1", "c1", "c2"}}

\* ------------------------------------------------------- program constants
\* the descriptor returned by unix.Open, and the value Close stores after it
OpenFd == 3
ClosedFd == -1

\* the handle returned by windows.CreateFile, and windows.InvalidHandle
OpenHandle == 7
InvalidHandle == 0 - 1

Min(a, b) == IF a < b THEN a ELSE b
Max(a, b) == IF a > b THEN a ELSE b

\* --------------------------------------------------------------- time.Time
ZeroTime == [zero |-> TRUE, off |-> 0]
At(d) == [zero |-> FALSE, off |-> d]
Times == {ZeroTime} \cup {At(d) : d \in (0 - MaxPast)..MaxFuture}

IsZero(t) == t.zero

\* one millisecond later: a stored absolute time is one millisecond nearer
\* to (or further behind) the clock
Age(t) == IF t.zero THEN t ELSE At(Max(t.off - 1, 0 - MaxPast))

\* !deadline.IsZero() && time.Now().After(deadline)
DeadlineExpired_Before(t) == ~IsZero(t) /\ t.off > 0
DeadlineExpired(t) == ~IsZero(t) /\ t.off < 0

\* ------------------------------------------------------------------ uint32
\* A uint32 is kept as two 16-bit halves, so that the conversion of a
\* negative int64 wraps as the Go conversion uint32(x) does.
Half == 65536
U32(x) == [hi |-> (x \div Half) % Half, lo |-> x % Half]
maxDWORD == [hi |-> Half - 1, lo |-> Half - 1]

\* uint32(time.Time{}.Sub(time.Now()).Milliseconds()): Sub saturates at the
\* minimum Duration, -9223372036854 ms, which is 2217714954 modulo 2^32
ZeroTimeSubHi == 33839
ZeroTimeSubLo == 42250

\* timeout := uint32(deadline.Sub(time.Now()).Milliseconds())
TimeoutOf(t) ==
  IF IsZero(t) THEN [hi |-> ZeroTimeSubHi, lo |-> ZeroTimeSubLo] ELSE U32(t.off)

\* timeout <= 0, on a uint32
TimeoutLeqZero(u) == u.hi = 0 /\ u.lo <= 0

\* --------------------------------------------- windows.CommTimeouts, requests
CommTimeouts(ri, rm, rc, wm, wc) ==
  [ReadIntervalTimeout |-> ri, ReadTotalTimeoutMultiplier |-> rm,
   ReadTotalTimeoutConstant |-> rc, WriteTotalTimeoutMultiplier |-> wm,
   WriteTotalTimeoutConstant |-> wc]

\* the local ct of a call outside the lines that use it (from its
\* declaration to the request that follows SetCommTimeouts)
NoCt == CommTimeouts(U32(0), U32(0), U32(0), U32(0), U32(0))

\* An overlapped request: st is "none", "pending", "done" or "aborted"; n the
\* bytes transferred so far; mode "wait" (no total time-out), "timed" (timer
\* milliseconds left) or "long" (a time-out beyond the horizon of the model)
NoReq == [st |-> "none", n |-> 0, mode |-> "wait", timer |-> 0]

\* the total time-out the device arms for a request started under constant c
\* and multiplier m: none when the constant is zero or the multiplier is the
\* code's "no deadline" sentinel
Armed(m, c) ==
  IF m = maxDWORD \/ c = U32(0) THEN [mode |-> "wait", timer |-> 0]
  ELSE IF c.hi = 0 /\ c.lo <= MaxFuture THEN [mode |-> "timed", timer |-> c.lo]
  ELSE [mode |-> "long", timer |-> 0]

\* a request for len bytes of which k are transferred at once
NewReq(len, k, arm) ==
  [st |-> IF k = len THEN "done" ELSE "pending", n |-> k,
   mode |-> arm.mode, timer |-> arm.timer]

\* one more byte is transferred for a pending request
Progress(r, len) ==
  [r EXCEPT !.n = r.n + 1, !.st = IF r.n + 1 = len THEN "done" ELSE "pending"]

\* one millisecond of a pending request's total time-out elapses
Elapse(r) ==
  IF r.st = "pending" /\ r.mode = "timed"
  THEN [r EXCEPT !.timer = r.timer - 1,
                 !.st = IF r.timer - 1 = 0 THEN "done" ELSE "pending"]
  ELSE r

\* CancelIoEx / handle cleanup: every pending request is cancelled
Abort(r) == IF r.st = "pending" THEN [r EXCEPT !.st = "aborted"] ELSE r

\* =========================================================================
\* Configuration translators (serial.go, serial_windows.go, serial_posix.go)
\* =========================================================================

\* -------------------------------------------------------------- serial.go
ParityNil == 0
ParityNone == 1
ParityOdd == 2
ParityEven == 3

StopBitsNil == 0
StopBits1 == 1
StopBits2 == 2

Config(baud, bits, stop, par) ==
  [BaudRate |-> baud, DataBits |-> bits, StopBits |-> stop, Parity |-> par]

\* conf := Config{}
ZeroConfig == Config(0, 0, StopBitsNil, ParityNil)

\* A flag word is the set of the positions of its one bits: f |= m is the
\* union with the mask, f &^= m the difference.
Or(f, m) == f \cup m
AndNot(f, m) == f \ m

\* the result of a translator step: the error and the block
Step(e, d) == [err |-> e, d |-> d]

\* ------------------------------------------------------- serial_windows.go
cbr110 == 110
cbr300 == 300
cbr600 == 600
cbr1200 == 1200
cbr2400 == 2400
cbr4800 == 4800
cbr9600 == 9600
cbr14400 == 14400
cbr19200 == 19200
cbr38400 == 38400
cbr57600 == 57600
cbr115200 == 115200
cbr128000 == 128000
cbr256000 == 256000

baudRates_NoDefault ==
  110 :> cbr110 @@ 300 :> cbr300 @@ 600 :> cbr600 @@ 1200 :> cbr1200 @@
  2400 :> cbr2400 @@ 4800 :> cbr4800 @@ 9600 :> cbr9600 @@ 14400 :> cbr14400 @@
  19200 :> cbr19200 @@ 38400 :> cbr38400 @@ 57600 :> cbr57600 @@
  115200 :> cbr115200 @@ 128000 :> cbr128000 @@ 256000 :> cbr256000
baudRates ==
  0 :> cbr19200 @@
  110 :> cbr110 @@ 300 :> cbr300 @@ 600 :> cbr600 @@ 1200 :> cbr1200 @@
  2400 :> cbr2400 @@ 4800 :> cbr4800 @@ 9600 :> cbr9600 @@ 14400 :> cbr14400 @@
  19200 :> cbr19200 @@ 38400 :> cbr38400 @@ 57600 :> cbr57600 @@
  115200 :> cbr115200 @@ 128000 :> cbr128000 @@ 256000 :> cbr256000

\* the masks of dcb.Flags
dcbfBinary == {0}
dcbfParity == {1}
dcbfOutxCTSFlow == {2}
dcbfOutxDSRFlow == {3}
dcbfDTRControl == {4, 5}
dcbfOutX == {8}
dcbfInX == {9}
dcbfErrorChar == {10}
dcbfNull == {11}
dcbfRTSControl == {12, 13}

oneStopBit == 0
twoStopBits == 2

evenParity == 2
oddParity == 1
noParity == 0

\* type dcb struct: other stands for the scalar fields no translator names
\* (DCBLength, WReserved, XonLim, XoffLim, XonChar, XoffChar, ErrorChar,
\* EOFChar, EvtChar, WReserved1), each holding the same sample value
Dcb(baud, flags, size, par, stop, other) ==
  [BaudRate |-> baud, Flags |-> flags, ByteSize |-> size, Parity |-> par,
   StopBits |-> stop, DCBLength |-> other, WReserved |-> other,
   XonLim |-> other, XoffLim |-> other, XonChar |-> other, XoffChar |-> other,
   ErrorChar |-> other, EOFChar |-> other, EvtChar |-> other,
   WReserved1 |-> other]

dcbInit_Assign(d) == [d EXCEPT !.Flags = dcbfBinary]
dcbInit(d) ==
  [d EXCEPT !.Flags =
     AndNot(AndNot(AndNot(AndNot(AndNot(AndNot(AndNot(AndNot(
       Or(@, dcbfBinary),
       dcbfOutxCTSFlow), dcbfOutxDSRFlow), dcbfDTRControl), dcbfRTSControl),
       dcbfOutX), dcbfInX), dcbfErrorChar), dcbfNull)]

dcbSetBaudRate(d, baudRate) ==
  IF baudRate \in DOMAIN baudRates
  THEN Step("nil", [d EXCEPT !.BaudRate = baudRates[baudRate]])
  ELSE Step("unsupported baud rate", d)

dcbSetByteSize_NoDefaultCase(d, byteSize) ==
  Step("nil", [d EXCEPT !.ByteSize = IF byteSize = 0 THEN 8 ELSE byteSize])
dcbSetByteSize(d, byteSize) ==
  CASE byteSize \in {8, 0} -> Step("nil", [d EXCEPT !.ByteSize = 8])
    [] byteSize = 7 -> Step("nil", [d EXCEPT !.ByteSize = 7])
    [] byteSize = 6 -> Step("nil", [d EXCEPT !.ByteSize = 6])
    [] byteSize = 5 -> Step("nil", [d EXCEPT !.ByteSize = 5])
    [] OTHER -> Step("unsupported byte size", d)

dcbSetStopBits(d, stopBits) ==
  CASE stopBits \in {StopBits1, StopBitsNil} ->
         Step("nil", [d EXCEPT !.StopBits = oneStopBit])
    [] stopBits = StopBits2 -> Step("nil", [d EXCEPT !.StopBits = twoStopBits])
    [] OTHER -> Step("unsupported stop bits", d)

dcbSetParity(d, parity) ==
  CASE parity = ParityNone ->
         Step("nil", [d EXCEPT !.Flags = AndNot(@, dcbfParity), !.Parity = noParity])
    [] parity \in {ParityEven, ParityNil} ->
         Step("nil", [d EXCEPT !.Flags = Or(@, dcbfParity), !.Parity = evenParity])
    [] parity = ParityOdd ->
         Step("nil", [d EXCEPT !.Flags = Or(@, dcbfParity), !.Parity = oddParity])
    [] OTHER -> Step("unsupported parity", d)

\* nativeOpen, from dcbInit(&d) to the last setter: the first error ends it
WinTranslate(d0, c) ==
  LET r1 == dcbSetBaudRate(dcbInit(d0), c.BaudRate)
      r2 == IF r1.err = "nil" THEN dcbSetByteSize(r1.d, c.DataBits) ELSE r1
      r3 == IF r2.err = "nil" THEN dcbSetStopBits(r2.d, c.StopBits) ELSE r2
      r4 == IF r3.err = "nil" THEN dcbSetParity(r3.d, c.Parity) ELSE r3
  IN r4

\* --------------------------------------------------------- serial_posix.go
tickResolution == 1

\* the masks of golang.org/x/sys/unix that the translators name, each the set
\* of its bit positions: CBAUD .. CLOCAL are c_cflag masks, ISIG .. ECHOKE
\* c_lflag masks, OPOST a c_oflag mask, IGNBRK .. IXOFF c_iflag masks
unix ==
  [CBAUD |-> {0, 1, 2, 3, 12}, CSIZE |-> {4, 5}, CSTOPB |-> {6},
   CREAD |-> {7}, PARENB |-> {8}, PARODD |-> {9}, CLOCAL |-> {11},
   ISIG |-> {0}, ICANON |-> {1}, ECHO |-> {3}, ECHOE |-> {4}, ECHOK |-> {5},
   ECHONL |-> {6}, ECHOCTL |-> {9}, ECHOPRT |-> {10}, ECHOKE |-> {11},
   OPOST |-> {0}, IGNBRK |-> {0}, BRKINT |-> {1}, IGNPAR |-> {2},
   PARMRK |-> {3}, INPCK |-> {4}, ISTRIP |-> {5}, INLCR |-> {6},
   IGNCR |-> {7}, ICRNL |-> {8}, IXON |-> {10}, IXANY |-> {11},
   IXOFF |-> {12}]

\* unix.Termios
Termios(c, i, l, o, vtime, vmin) ==
  [Cflag |-> c, Iflag |-> i, Lflag |-> l, Oflag |-> o, VTIME |-> vtime,
   VMIN |-> vmin]

\* the speed and character-size tables of the polling backend: the defaults
\* (19200 baud, 8 data bits) stand at key 0
posixBaudRates ==
  0 :> {1, 2, 3} @@ 110 :> {0, 1} @@ 9600 :> {0, 2, 3} @@ 19200 :> {1, 2, 3}
charSizes == 0 :> {4, 5} @@ 5 :> {} @@ 6 :> {4} @@ 7 :> {5} @@ 8 :> {4, 5}

termiosSetRaw(tty) ==
  [tty EXCEPT
     !.Cflag = AndNot(AndNot(AndNot(AndNot(Or(Or(@, unix.CREAD), unix.CLOCAL),
                 unix.ICANON), unix.ISIG), unix.ECHO), unix.OPOST),
     !.Lflag = AndNot(AndNot(AndNot(AndNot(AndNot(AndNot(@,
                 unix.ECHOE), unix.ECHOK), unix.ECHONL), unix.ECHOCTL), unix.ECHOPRT), unix.ECHOKE),
     !.Iflag = AndNot(AndNot(@, unix.IXON \cup unix.IXOFF \cup unix.IXANY),
                 unix.IGNBRK \cup unix.BRKINT \cup unix.PARMRK \cup unix.ISTRIP \cup unix.INLCR
                   \cup unix.IGNCR \cup unix.ICRNL)]

termiosSetBaudrate(tty, baudRate) ==
  IF baudRate \in DOMAIN posixBaudRates
  THEN Step("nil", [tty EXCEPT !.Cflag = Or(AndNot(@, unix.CBAUD), posixBaudRates[baudRate])])
  ELSE Step("unsupported baud rate", tty)

termiosSetCharSize(tty, charSize) ==
  IF charSize \in DOMAIN charSizes
  THEN Step("nil", [tty EXCEPT !.Cflag = Or(AndNot(@, unix.CSIZE), charSizes[charSize])])
  ELSE Step("unsupported character size", tty)

termiosSetStopBits(tty, stopBits) ==
  CASE stopBits \in {StopBits1, StopBitsNil} ->
         Step("nil", [tty EXCEPT !.Cflag = AndNot(@, unix.CSTOPB)])
    [] stopBits = StopBits2 -> Step("nil", [tty EXCEPT !.Cflag = Or(@, unix.CSTOPB)])
    [] OTHER -> Step("unsupported stop bits", tty)

termiosSetParity(tty, parity) ==
  CASE parity = ParityNone -> Step("nil", [tty EXCEPT !.Cflag = AndNot(@, unix.PARENB)])
    [] parity \in {ParityEven, ParityNil} ->
         Step("nil", [tty EXCEPT !.Cflag = AndNot(Or(@, unix.PARENB), unix.PARODD),
                                 !.Iflag = AndNot(Or(@, unix.INPCK), unix.IGNPAR)])
    [] parity = ParityOdd ->
         Step("nil", [tty EXCEPT !.Cflag = Or(Or(@, unix.PARENB), unix.PARODD),
                                 !.Iflag = AndNot(Or(@, unix.INPCK), unix.IGNPAR)])
    [] OTHER -> Step("unsupported parity", tty)

termiosSetTimeout(tty, vtime, vmin) == [tty EXCEPT !.VTIME = vtime, !.VMIN = vmin]

\* nativeOpen, from termiosSetRaw(tty) to termiosSetTimeout
PosixTranslate(tty0, c) ==
  LET r1 == termiosSetBaudrate(termiosSetRaw(tty0), c.BaudRate)
      r2 == IF r1.err = "nil" THEN termiosSetCharSize(r1.d, c.DataBits) ELSE r1
      r3 == IF r2.err = "nil" THEN termiosSetParity(r2.d, c.Parity) ELSE r2
      r4 == IF r3.err = "nil" THEN termiosSetStopBits(r3.d, c.StopBits) ELSE r3
  IN IF r4.err = "nil"
     THEN Step("nil", termiosSetTimeout(r4.d, tickResolution, 0))
     ELSE r4

\* the block of a device nobody has configured
Dcb0 == Dcb(0, {}, 0, 0, 0, 0)
Tty0 == Termios({}, {}, {}, {}, 0, 0)

VARIABLES
  pc,             \* position of each thread in its current call
  buflen,         \* len(b) of the current Read/Write call
  cnt,            \* the local `read` / `written` accumulator
  res,            \* what the last call returned: [n, err]
  slept,          \* a thread in time.Sleep: has a millisecond passed?
  readDeadline,   \* port.readDeadline
  writeDeadline,  \* port.writeDeadline
  mutReaders,     \* port.mut: threads holding the shared lock
  mutWriter,      \* port.mut: thread that announced / holds the exclusive lock
  fd,             \* posix port.fd
  closing,        \* posix port.closing
  rxAvail,        \* bytes the device has ready for unix.Read
  txRoom,         \* bytes the device accepts from unix.Write
  closeCalls,     \* history: number of unix.Close / CloseHandle invocations
  released,       \* history: the real descriptor / handle was released
  releaseErr,     \* history: what the release of the real handle returned
  handle,         \* windows port.handle
  devCt,          \* windows: the device's COMMTIMEOUTS record
  lct,            \* windows: the local `ct` of a Read/Write call
  timeout,        \* windows: the local `timeout` of a Read/Write call
  req,            \* windows: the overlapped request issued on p.ro / p.wo
  cancelErr,      \* windows: the local `cancelErr` of a Close call
  rbuf,           \* posix: the contents of the buffer b of a Read call
  rxPos,          \* posix: bytes taken from the device's input stream so far
  wire,           \* posix: the bytes unix.Write has handed to the device
  conf,           \* the Config that Open hands to nativeOpen
  initDcb,        \* windows: the device's DCB before Open
  initTty,        \* posix: the device's termios before Open
  devDcb,         \* windows: the device's DCB
  devTty,         \* posix: the device's termios
  openRes,        \* Open: by is "none" before, "win" / "posix" after; err
  setCalls,       \* history: number of setCommState / IoctlSetTermios calls
  devHandle,      \* the descriptor / handle nativeOpen obtained: "none", "open"
  hist            \* history of the current Read/Write call, see below

\* hist[t] records which situation the call of t is in:
\*   "past"    the call began on an open port whose deadline had expired,
\*             and since then no deadline was set and no Close raised the flag
\*   "pre"     while the call was blocked with no deadline and nothing to
\*             transfer, its deadline was set to a time not in the future,
\*             and since then nothing was delivered, set or closed
\*   "pre1"    as "pre", and the call has made one native call since
\*   "closed"  while the call was in flight with no deadline and nothing to
\*             transfer, Close raised the closing flag, and since then
\*             nothing was delivered and no deadline was set
\*   "late"    (a Close call) it began after some Close call had returned
\*   "after"   (a Read/Write call) it began after some Close call had returned
\*   "fut"     the call began with a non-empty buffer on an open port with
\*             nothing to transfer and its deadline in the future, and since
\*             then nothing was delivered, no deadline was set, no native call
\*             failed and no Close raised the flag or cancelled a request
\*   "-"       none of these
posixVars == <<fd, closing, rxAvail, txRoom, closeCalls, released, releaseErr>>
winVars == <<handle, devCt, lct, timeout, req, cancelErr>>
histVars == <<hist>>
dataVars == <<rbuf, rxPos, wire>>
cfgVars == <<conf, initDcb, initTty, devDcb, devTty, openRes, setCalls,
             devHandle>>
ioVars == <<pc, buflen, cnt, res, slept, readDeadline, writeDeadline,
            mutReaders, mutWriter, posixVars, winVars, histVars, dataVars>>
vars == <<pc, buflen, cnt, res, slept, readDeadline, writeDeadline,
          mutReaders, mutWriter, posixVars, winVars, histVars, dataVars,
          cfgVars>>

Result(n, e) == [n |-> n, err |-> e]

\* some call of this direction takes part in the run
Live(T) == \E t \in T : pc[t] # "off"

InLoop(t) == pc[t] \in {"isClosing", "deadlineExpired", "native", "Sleep"}
InFlight(t) == pc[t] \in {"RLock", "isClosing", "deadlineExpired", "native", "Sleep"}
CloseRunning(t) == pc[t] \in {"setClosing", "Lock", "LockWait", "unixClose", "setFd"}

InitIo(SS) ==
  /\ \E S \in SS : pc = [t \in Threads |-> IF t \in S THEN "idle" ELSE "off"]
  /\ buflen = [t \in IoThreads |-> 0]
  /\ cnt = [t \in IoThreads |-> 0]
  /\ res = [t \in Threads |-> Result(0, "nil")]
  /\ slept = [t \in IoThreads |-> FALSE]
  /\ readDeadline = ZeroTime
  /\ writeDeadline = ZeroTime
  /\ mutReaders = {}
  /\ mutWriter = NoThread
  /\ fd = OpenFd
  /\ closing = FALSE
  /\ rxAvail = 0
  /\ txRoom = 0
  /\ closeCalls = 0
  /\ released = FALSE
  /\ releaseErr = "none"
  /\ hist = [t \in Threads |-> "-"]
  /\ handle = OpenHandle
  /\ devCt = CommTimeouts(U32(0), U32(0), U32(0), U32(0), U32(0))
  /\ lct = [t \in IoThreads |-> NoCt]
  /\ timeout = [t \in IoThreads |-> U32(0)]
  /\ req = [t \in IoThreads |-> NoReq]
  /\ cancelErr = [t \in Closers |-> "nil"]
  /\ rbuf = [t \in Readers |-> [i \in 1..MaxLen |-> 0]]
  /\ rxPos = 0
  /\ wire = <<>>

\* the port has been opened, with the zero Config
InitOf(SS) ==
  /\ InitIo(SS)
  /\ conf = ZeroConfig
  /\ initDcb = Dcb0
  /\ initTty = Tty0
  /\ devDcb = Dcb0
  /\ devTty = Tty0
  /\ openRes = [by |-> "open", err |-> "nil"]
  /\ setCalls = 0
  /\ devHandle = "open"

Init == InitOf(Scenarios)


\* the deadline of the direction of t, and what the device can transfer for it
DeadlineOf(t) == IF t \in Readers THEN readDeadline ELSE writeDeadline
AvailOf(t) == IF t \in Readers THEN rxAvail ELSE txRoom

\* ------------------------------------------------------------ environment
\* one millisecond passes
Tick ==
  /\ readDeadline' = Age(readDeadline)
  /\ writeDeadline' = Age(writeDeadline)
  /\ slept' = [t \in IoThreads |-> slept[t] \/ pc[t] = "Sleep"]
  /\ req' = [t \in IoThreads |-> Elapse(req[t])]
  /\ UNCHANGED <<pc, buflen, cnt, res, mutReaders, mutWriter, posixVars,
                 handle, devCt, lct, timeout, cancelErr, histVars, dataVars,
                 cfgVars>>

\* the device receives one more byte from the line
Transfer(T, avail, availNext) ==
  /\ Live(T)
  /\ IF \E t \in T : req[t].st = "pending"
     THEN /\ req' = [t \in IoThreads |->
                IF t \in T /\ req[t].st = "pending"
                THEN Progress(req[t], buflen[t]) ELSE req[t]]
          /\ availNext = avail
     ELSE /\ avail < MaxAvail
          /\ availNext = avail + 1
          /\ UNCHANGED req
  /\ hist' = [t \in Threads |->
        IF t \in T /\ hist[t] \notin {"past", "after"} THEN "-" ELSE hist[t]]
  /\ UNCHANGED <<pc, buflen, cnt, res, slept, readDeadline, writeDeadline,
                 mutReaders, mutWriter, fd, closing, closeCalls,
                 released, releaseErr, handle, devCt, lct, timeout, cancelErr,
                 dataVars, cfgVars>>

DeviceDeliver == Transfer(Readers, rxAvail, rxAvail') /\ UNCHANGED txRoom

\* the device's output buffer drains by one byte
DeviceDrain == Transfer(Writers, txRoom, txRoom') /\ UNCHANGED rxAvail

\* a total time-out that lies beyond the horizon of the model runs out at
\* last: the request completes with what it has transferred
LongElapse ==
  /\ \E t \in IoThreads : req[t].st = "pending" /\ req[t].mode = "long"
  /\ req' = [t \in IoThreads |->
        IF req[t].st = "pending" /\ req[t].mode = "long"
        THEN [req[t] EXCEPT !.st = "done"] ELSE req[t]]
  /\ UNCHANGED <<pc, buflen, cnt, res, slept, readDeadline, writeDeadline,
                 mutReaders, mutWriter, posixVars, handle, devCt, lct, timeout,
                 cancelErr, histVars, dataVars, cfgVars>>

\* ------------------------------------------------- polling backend: deadlines
\* a call of direction D is blocked: inside its loop, wanting more bytes
Blocked(t) == InLoop(t) /\ cnt[t] < buflen[t]

PosixSetReadDeadline(d) ==
  /\ UNCHANGED <<winVars, dataVars, cfgVars>>
  /\ Live(Readers)
  /\ readDeadline' = d
  /\ UNCHANGED <<pc, buflen, cnt, res, slept, writeDeadline, mutReaders,
                 mutWriter, posixVars>>
  /\ hist' = [t \in Threads |->
        IF t \in Readers /\ hist[t] # "after"
        THEN IF /\ Blocked(t) /\ IsZero(readDeadline) /\ ~closing /\ rxAvail = 0
                /\ ~IsZero(d) /\ d.off <= 0
             THEN "pre" ELSE "-"
        ELSE hist[t]]

PosixSetWriteDeadline(d) ==
  /\ UNCHANGED <<winVars, dataVars, cfgVars>>
  /\ Live(Writers)
  /\ writeDeadline' = d
  /\ UNCHANGED <<pc, buflen, cnt, res, slept, readDeadline, mutReaders,
                 mutWriter, posixVars>>
  /\ hist' = [t \in Threads |->
        IF t \in Writers /\ hist[t] # "after"
        THEN IF /\ Blocked(t) /\ IsZero(writeDeadline) /\ ~closing /\ txRoom = 0
                /\ ~IsZero(d) /\ d.off <= 0
             THEN "pre" ELSE "-"
        ELSE hist[t]]

\* ------------------------------------------------ polling backend: Read/Write
\* return from Read/Write: the deferred RUnlock runs, the result is delivered
IoReturn(t, n, e) ==
  /\ pc' = [pc EXCEPT ![t] = "done"]
  /\ res' = [res EXCEPT ![t] = Result(n, e)]
  /\ mutReaders' = mutReaders \ {t}

\* the call is entered: b is chosen by the caller
PosixIoCall(t, dl) ==
  /\ UNCHANGED <<winVars, dataVars, cfgVars>>
  /\ pc[t] = "idle"
  /\ \E l \in 0..MaxLen : buflen' = [buflen EXCEPT ![t] = l]
  /\ pc' = [pc EXCEPT ![t] = "RLock"]
  /\ cnt' = [cnt EXCEPT ![t] = 0]
  /\ slept' = [slept EXCEPT ![t] = FALSE]
  /\ hist' = [hist EXCEPT
        ![t] = IF ~closing /\ fd = OpenFd /\ ~IsZero(dl) /\ dl.off < 0
               THEN "past"
               ELSE IF \E c \in Closers : pc[c] = "done" THEN "after"
               ELSE IF /\ ~closing /\ fd = OpenFd /\ buflen'[t] > 0
                       /\ AvailOf(t) = 0 /\ ~IsZero(dl) /\ dl.off > 0
                    THEN "fut" ELSE "-"]
  /\ UNCHANGED <<res, readDeadline, writeDeadline, mutReaders, mutWriter, posixVars>>

\* p.mut.RLock(): granted unless a writer holds or has announced itself
RLockFree_IgnoreWriter == TRUE
RLockFree_Exclusive == mutWriter = NoThread /\ mutReaders = {}
RLockFree == mutWriter = NoThread

PosixIoRLock(t) ==
  /\ UNCHANGED <<winVars, dataVars, cfgVars>>
  /\ pc[t] = "RLock"
  /\ RLockFree
  /\ mutReaders' = mutReaders \cup {t}
  /\ pc' = [pc EXCEPT ![t] = "isClosing"]
  /\ UNCHANGED <<buflen, cnt, res, slept, readDeadline, writeDeadline,
                 mutWriter, posixVars, histVars>>

\* if p.isClosing() || p.fd == -1 { return read, ErrPortClosed }
PortClosedCheck_Never == FALSE
PortClosedCheck == closing \/ fd = ClosedFd

PosixIoIsClosing(t) ==
  /\ UNCHANGED <<winVars, dataVars, cfgVars>>
  /\ pc[t] = "isClosing"
  /\ IF PortClosedCheck
     THEN IoReturn(t, cnt[t], "ErrPortClosed")
     ELSE /\ pc' = [pc EXCEPT ![t] = "deadlineExpired"]
          /\ UNCHANGED <<res, mutReaders>>
  /\ UNCHANGED <<buflen, cnt, slept, readDeadline, writeDeadline, mutWriter,
                 posixVars, histVars>>

\* func (p *port) readDeadlineExpired() bool
readDeadlineExpired_NoZeroTest ==
  IsZero(readDeadline) \/ DeadlineExpired(readDeadline)
readDeadlineExpired == DeadlineExpired(readDeadline)

\* func (p *port) writeDeadlineExpired() bool
writeDeadlineExpired_ReadDeadline == DeadlineExpired(readDeadline)
writeDeadlineExpired == DeadlineExpired(writeDeadline)

\* if p.readDeadlineExpired() { return read, os.ErrDeadlineExceeded }
PosixIoDeadlineExpired_Skipped(t, expired) ==
  /\ UNCHANGED <<winVars, dataVars, cfgVars>>
  /\ pc[t] = "deadlineExpired"
  /\ pc' = [pc EXCEPT ![t] = "native"]
  /\ UNCHANGED <<buflen, cnt, res, slept, readDeadline, writeDeadline,
                 mutReaders, mutWriter, posixVars, histVars>>
PosixIoDeadlineExpired(t, expired) ==
  /\ UNCHANGED <<winVars, dataVars, cfgVars>>
  /\ pc[t] = "deadlineExpired"
  /\ IF expired
     THEN IoReturn(t, cnt[t], "ErrDeadlineExceeded")
     ELSE /\ pc' = [pc EXCEPT ![t] = "native"]
          /\ UNCHANGED <<res, mutReaders>>
  /\ UNCHANGED <<buflen, cnt, slept, readDeadline, writeDeadline, mutWriter,
                 posixVars, histVars>>

CountUp(c) == Min(c + 1, MaxCount)

\* the i-th byte of the device's input stream, and the i-th byte of the
\* buffer handed to Write
Stream(i) == i
WBuf(i) == i

\* b[read:] / b[written:]: the native call transfers from this offset of b
BufOffset_Start(c) == 0
BufOffset(c) == c

\* read += n / written += n
Accumulate_Overwrite(c, k) == k
Accumulate(c, k) == c + k

\* the native call moved k bytes: unix.Read stored the next k bytes of the
\* input stream into b[read:], unix.Write handed the first k bytes of
\* b[written:] to the device
NativeTransfer(t, k) ==
  IF t \in Readers
  THEN /\ rbuf' = [rbuf EXCEPT ![t] =
             [i \in 1..MaxLen |->
                IF i > BufOffset(cnt[t]) /\ i <= BufOffset(cnt[t]) + k
                THEN Stream(rxPos + i - BufOffset(cnt[t]))
                ELSE rbuf[t][i]]]
       /\ rxPos' = rxPos + k
       /\ UNCHANGED wire
  ELSE /\ wire' = wire \o [i \in 1..k |-> WBuf(BufOffset(cnt[t]) + i)]
       /\ UNCHANGED <<rbuf, rxPos>>

\* hist after a native call that returned e
NoteAttempt(t, e) ==
  hist' = [hist EXCEPT ![t] = IF hist[t] = "after" THEN "after"
                              ELSE IF e = "EIO" THEN "-"
                              ELSE IF hist[t] = "pre" THEN "pre1"
                              ELSE hist[t]]

\* n, err := unix.Read(p.fd, b[read:]) and the switch / length test after it.
\* avail is what the device can transfer now.  Outcomes of the native call:
\*   EAGAIN    nothing can be transferred          -> time.Sleep
\*   EIO       any other error, n = -1             -> return n + read, err
\*   k bytes   1 <= k <= min(avail, len(b) - read) (0 for an empty slice)
PosixIoNative(t, avail, availNext) ==
  /\ UNCHANGED <<winVars, cfgVars>>
  /\ pc[t] = "native"
  /\ \/ \* case err == unix.EAGAIN
        /\ avail = 0 /\ buflen[t] - cnt[t] > 0
        /\ availNext = avail
        /\ pc' = [pc EXCEPT ![t] = "Sleep"]
        /\ slept' = [slept EXCEPT ![t] = FALSE]
        /\ NoteAttempt(t, "EAGAIN")
        /\ UNCHANGED <<cnt, res, mutReaders, dataVars>>
     \/ \* case err != nil
        /\ availNext = avail
        /\ IoReturn(t, (0 - 1) + cnt[t], "EIO")
        /\ NoteAttempt(t, "EIO")
        /\ UNCHANGED <<cnt, slept, dataVars>>
     \/ \* default: read += n
        \E k \in 0..Min(avail, buflen[t] - cnt[t]) :
          /\ k = 0 => buflen[t] - cnt[t] = 0
          /\ availNext = avail - k
          /\ cnt' = [cnt EXCEPT ![t] = Accumulate(cnt[t], k)]
          /\ NativeTransfer(t, k)
          /\ IF Accumulate(cnt[t], k) = buflen[t]
             THEN IoReturn(t, Accumulate(cnt[t], k), "nil")
             ELSE /\ pc' = [pc EXCEPT ![t] = "isClosing"]
                  /\ UNCHANGED <<res, mutReaders>>
          /\ NoteAttempt(t, "nil")
          /\ UNCHANGED slept
  /\ UNCHANGED <<buflen, readDeadline, writeDeadline, mutWriter, fd, closing,
                 closeCalls, released, releaseErr>>

\* time.Sleep(time.Millisecond) returns once a millisecond has passed
PosixIoSleep(t) ==
  /\ UNCHANGED <<winVars, dataVars, cfgVars>>
  /\ pc[t] = "Sleep"
  /\ slept[t]
  /\ slept' = [slept EXCEPT ![t] = FALSE]
  /\ IF cnt[t] = buflen[t]
     THEN IoReturn(t, cnt[t], "nil")
     ELSE /\ pc' = [pc EXCEPT ![t] = "isClosing"]
          /\ UNCHANGED <<res, mutReaders>>
  /\ UNCHANGED <<buflen, cnt, readDeadline, writeDeadline, mutWriter,
                 posixVars, histVars>>

PosixReadCall(t) == t \in Readers /\ PosixIoCall(t, readDeadline)
PosixReadRLock(t) == t \in Readers /\ PosixIoRLock(t)
PosixReadIsClosing(t) == t \in Readers /\ PosixIoIsClosing(t)
PosixReadDeadlineExpired(t) ==
  t \in Readers /\ PosixIoDeadlineExpired(t, readDeadlineExpired)
PosixReadNative(t) ==
  /\ t \in Readers
  /\ PosixIoNative(t, rxAvail, rxAvail')
  /\ UNCHANGED txRoom
PosixReadSleep(t) == t \in Readers /\ PosixIoSleep(t)

PosixWriteCall(t) == t \in Writers /\ PosixIoCall(t, writeDeadline)
PosixWriteRLock(t) == t \in Writers /\ PosixIoRLock(t)
PosixWriteIsClosing(t) == t \in Writers /\ PosixIoIsClosing(t)
PosixWriteDeadlineExpired(t) ==
  t \in Writers /\ PosixIoDeadlineExpired(t, writeDeadlineExpired)
PosixWriteNative(t) ==
  /\ t \in Writers
  /\ PosixIoNative(t, txRoom, txRoom')
  /\ UNCHANGED rxAvail
PosixWriteSleep(t) == t \in Writers /\ PosixIoSleep(t)


\* ---------------------------------------------------- polling backend: Close
\* if p.fd == -1 { return nil }
PosixCloseCall(t) ==
  /\ UNCHANGED <<winVars, dataVars, cfgVars>>
  /\ t \in Closers
  /\ pc[t] = "idle"
  /\ IF fd = ClosedFd
     THEN /\ pc' = [pc EXCEPT ![t] = "done"]
          /\ res' = [res EXCEPT ![t] = Result(0, "nil")]
     ELSE /\ pc' = [pc EXCEPT ![t] = "setClosing"]
          /\ UNCHANGED res
  /\ hist' = [hist EXCEPT
        ![t] = IF \E c \in Closers : pc[c] = "done" THEN "late" ELSE "-"]
  /\ UNCHANGED <<buflen, cnt, slept, readDeadline, writeDeadline, mutReaders,
                 mutWriter, posixVars>>

\* p.closingMut.Lock(); p.closing = true; p.closingMut.Unlock()
ClosingFlag_NotRaised == closing
ClosingFlag == TRUE

PosixCloseSetClosing(t) ==
  /\ UNCHANGED <<winVars, dataVars, cfgVars>>
  /\ t \in Closers
  /\ pc[t] = "setClosing"
  /\ closing' = ClosingFlag
  /\ pc' = [pc EXCEPT ![t] = "Lock"]
  /\ hist' = [u \in Threads |->
        IF /\ u \in IoThreads /\ InFlight(u) /\ cnt[u] < buflen[u]
           /\ IsZero(DeadlineOf(u)) /\ AvailOf(u) = 0
        THEN "closed"
        ELSE IF u \in Closers \/ hist[u] = "after" THEN hist[u] ELSE "-"]
  /\ UNCHANGED <<buflen, cnt, res, slept, readDeadline, writeDeadline,
                 mutReaders, mutWriter, fd, rxAvail, txRoom, closeCalls,
                 released, releaseErr>>

\* p.mut.Lock(), first half: writers are serialised, then the writer
\* announces itself, which turns away every later RLock
PosixCloseLock(t) ==
  /\ UNCHANGED <<winVars, dataVars, cfgVars>>
  /\ t \in Closers
  /\ pc[t] = "Lock"
  /\ mutWriter = NoThread
  /\ mutWriter' = t
  /\ pc' = [pc EXCEPT ![t] = "LockWait"]
  /\ UNCHANGED <<buflen, cnt, res, slept, readDeadline, writeDeadline,
                 mutReaders, posixVars, histVars>>

\* p.mut.Lock(), second half: wait until the active readers have departed
ReadersGone_NoWait == TRUE
ReadersGone == mutReaders = {}

PosixCloseLockWait(t) ==
  /\ UNCHANGED <<winVars, dataVars, cfgVars>>
  /\ t \in Closers
  /\ pc[t] = "LockWait"
  /\ ReadersGone
  /\ pc' = [pc EXCEPT ![t] = "unixClose"]
  /\ UNCHANGED <<buflen, cnt, res, slept, readDeadline, writeDeadline,
                 mutReaders, mutWriter, posixVars, histVars>>

\* err := unix.Close(p.fd): EBADF for -1; for the real descriptor the kernel
\* releases it and reports success or an I/O error
PosixCloseUnixClose(t) ==
  /\ UNCHANGED <<winVars, dataVars, cfgVars>>
  /\ t \in Closers
  /\ pc[t] = "unixClose"
  /\ closeCalls' = CountUp(closeCalls)
  /\ IF fd = ClosedFd
     THEN /\ res' = [res EXCEPT ![t] = Result(0, "EBADF")]
          /\ UNCHANGED <<released, releaseErr>>
     ELSE /\ \E e \in {"nil", "EIO"} :
               /\ res' = [res EXCEPT ![t] = Result(0, e)]
               /\ releaseErr' = e
          /\ released' = TRUE
  /\ pc' = [pc EXCEPT ![t] = "setFd"]
  /\ UNCHANGED <<buflen, cnt, slept, readDeadline, writeDeadline, mutReaders,
                 mutWriter, fd, closing, rxAvail, txRoom, histVars>>

\* p.fd = -1; return err (the deferred p.mut.Unlock() runs)
PosixCloseSetFd(t) ==
  /\ UNCHANGED <<winVars, dataVars, cfgVars>>
  /\ t \in Closers
  /\ pc[t] = "setFd"
  /\ fd' = ClosedFd
  /\ mutWriter' = NoThread
  /\ pc' = [pc EXCEPT ![t] = "done"]
  /\ UNCHANGED <<buflen, cnt, res, slept, readDeadline, writeDeadline,
                 mutReaders, closing, rxAvail, txRoom, closeCalls, released,
                 releaseErr, histVars>>

\* ------------------------------------------------ polling backend: the system
PosixStep(t) ==
  \/ PosixReadRLock(t) \/ PosixReadIsClosing(t) \/ PosixReadDeadlineExpired(t)
  \/ PosixReadNative(t) \/ PosixReadSleep(t)
  \/ PosixWriteRLock(t) \/ PosixWriteIsClosing(t) \/ PosixWriteDeadlineExpired(t)
  \/ PosixWriteNative(t) \/ PosixWriteSleep(t)
  \/ PosixCloseSetClosing(t) \/ PosixCloseLock(t) \/ PosixCloseLockWait(t)
  \/ PosixCloseUnixClose(t) \/ PosixCloseSetFd(t)

PosixNext ==
  \/ Tick
  \/ DeviceDeliver
  \/ DeviceDrain
  \/ \E d \in Times : PosixSetReadDeadline(d)
  \/ \E d \in Times : PosixSetWriteDeadline(d)
  \/ \E t \in Threads : PosixReadCall(t)
  \/ \E t \in Threads : PosixWriteCall(t)
  \/ \E t \in Threads : PosixCloseCall(t)
  \/ \E t \in Threads : PosixStep(t)

SpecPosix == Init /\ [][PosixNext]_vars

\* The Go scheduler runs every runnable goroutine, and the clock advances:
\* a thread inside a call keeps taking steps.  Callers are not obliged to
\* start calls, and the device is not obliged to transfer anything.
FairScenarios == {{"r1", "c1", "c2"}, {"w1", "c1", "c2"}}

FairPosix ==
  /\ InitOf(FairScenarios) /\ [][PosixNext]_vars
  /\ WF_vars(Tick)
  /\ \A t \in Threads : WF_vars(PosixStep(t))



\* =========================================================================
\* Overlapped backend (serial_windows.go)
\* =========================================================================

\* a native call on p.handle reaches the device only if the field still holds
\* the handle and the handle has not been released
Valid == handle = OpenHandle /\ ~released

WinCloseRunning(c) == pc[c] \in {"CancelIoEx", "CloseHandle", "setHandle"}

WinUnchangedPosix ==
  UNCHANGED <<fd, closing, slept, cnt, mutWriter, dataVars, cfgVars>>

\* p.readDeadline = t
WinSetReadDeadline(d) ==
  /\ Live(Readers)
  /\ readDeadline' = d
  /\ WinUnchangedPosix
  /\ UNCHANGED <<pc, buflen, res, writeDeadline, mutReaders, rxAvail, txRoom,
                 closeCalls, released, releaseErr, winVars>>
  /\ hist' = [t \in Threads |->
        IF t \in Readers /\ hist[t] # "after"
        THEN IF /\ pc[t] = "GetOverlappedResult" /\ req[t].st = "pending"
                /\ IsZero(readDeadline) /\ ~IsZero(d) /\ d.off <= 0
             THEN "pre" ELSE "-"
        ELSE hist[t]]

\* p.writeDeadline = t
WinSetWriteDeadline(d) ==
  /\ Live(Writers)
  /\ writeDeadline' = d
  /\ WinUnchangedPosix
  /\ UNCHANGED <<pc, buflen, res, readDeadline, mutReaders, rxAvail, txRoom,
                 closeCalls, released, releaseErr, winVars>>
  /\ hist' = [t \in Threads |->
        IF t \in Writers /\ hist[t] # "after"
        THEN IF /\ pc[t] = "GetOverlappedResult" /\ req[t].st = "pending"
                /\ IsZero(writeDeadline) /\ ~IsZero(d) /\ d.off <= 0
             THEN "pre" ELSE "-"
        ELSE hist[t]]

\* the call is entered: b is chosen by the caller
WinIoCall(t, dl) ==
  /\ pc[t] = "idle"
  /\ \E l \in 0..MaxLen : buflen' = [buflen EXCEPT ![t] = l]
  /\ pc' = [pc EXCEPT ![t] = "RLock"]
  /\ hist' = [hist EXCEPT
        ![t] = IF /\ Valid /\ \A c \in Closers : ~WinCloseRunning(c)
                  /\ ~IsZero(dl) /\ dl.off < 0
               THEN "past"
               ELSE IF \E c \in Closers : pc[c] = "done" THEN "after"
               ELSE IF /\ Valid /\ \A c \in Closers : ~WinCloseRunning(c)
                       /\ buflen'[t] > 0 /\ AvailOf(t) = 0
                       /\ ~IsZero(dl) /\ dl.off > 0
                    THEN "fut" ELSE "-"]
  /\ WinUnchangedPosix
  /\ UNCHANGED <<res, readDeadline, writeDeadline, mutReaders, rxAvail, txRoom,
                 closeCalls, released, releaseErr, winVars>>

\* p.mut.RLock(); if p.handle == windows.InvalidHandle { return 0, ErrPortClosed }
WinIoRLock(t) ==
  /\ pc[t] = "RLock"
  /\ RLockFree
  /\ IF handle = InvalidHandle
     THEN IoReturn(t, 0, "ErrPortClosed")
     ELSE /\ mutReaders' = mutReaders \cup {t}
          /\ pc' = [pc EXCEPT ![t] = "GetCommTimeouts"]
          /\ UNCHANGED res
  /\ WinUnchangedPosix
  /\ UNCHANGED <<buflen, readDeadline, writeDeadline, rxAvail, txRoom,
                 closeCalls, released, releaseErr, winVars, histVars>>

\* windows.GetCommTimeouts(p.handle, &ct), then
\* timeout := uint32(deadline.Sub(time.Now()).Milliseconds())
\* if timeout <= 0 { return 0, os.ErrDeadlineExceeded }
WinIoGetCommTimeouts(t, dl) ==
  /\ pc[t] = "GetCommTimeouts"
  /\ IF ~Valid
     THEN /\ IoReturn(t, 0, "ERROR_INVALID_HANDLE")
          /\ UNCHANGED <<lct, timeout>>
     ELSE IF TimeoutLeqZero(TimeoutOf(dl))
          THEN /\ IoReturn(t, 0, "ErrDeadlineExceeded")
               /\ UNCHANGED <<lct, timeout>>
          ELSE /\ lct' = [lct EXCEPT ![t] = devCt]
               /\ timeout' = [timeout EXCEPT ![t] = TimeoutOf(dl)]
               /\ pc' = [pc EXCEPT ![t] = "SetCommTimeouts"]
               /\ UNCHANGED <<res, mutReaders>>
  /\ WinUnchangedPosix
  /\ UNCHANGED <<buflen, readDeadline, writeDeadline, rxAvail, txRoom,
                 closeCalls, released, releaseErr, handle, devCt, req,
                 cancelErr, histVars>>

\* Read:  if p.readDeadline.IsZero() { ct.Read... = maxDWORD, maxDWORD, 0 }
\*        else { ct.Read... = 0, 0, timeout }
ReadTimeouts(ct, dl, to) ==
  IF IsZero(dl)
  THEN [ct EXCEPT !.ReadIntervalTimeout = maxDWORD,
                  !.ReadTotalTimeoutMultiplier = maxDWORD,
                  !.ReadTotalTimeoutConstant = U32(0)]
  ELSE [ct EXCEPT !.ReadIntervalTimeout = U32(0),
                  !.ReadTotalTimeoutMultiplier = U32(0),
                  !.ReadTotalTimeoutConstant = to]

\* Write: if p.writeDeadline.IsZero() { ct.Write... = 0, 0 }
\*        else { ct.Write... = 0, timeout }
WriteTimeouts(ct, dl, to) ==
  IF IsZero(dl)
  THEN [ct EXCEPT !.WriteTotalTimeoutMultiplier = U32(0),
                  !.WriteTotalTimeoutConstant = U32(0)]
  ELSE [ct EXCEPT !.WriteTotalTimeoutMultiplier = U32(0),
                  !.WriteTotalTimeoutConstant = to]

\* the ct fields are set from the deadline, then
\* windows.SetCommTimeouts(p.handle, &ct)
WinIoSetCommTimeouts(t, ct) ==
  /\ pc[t] = "SetCommTimeouts"
  /\ timeout' = [timeout EXCEPT ![t] = U32(0)]
  /\ IF ~Valid
     THEN /\ IoReturn(t, 0, "ERROR_INVALID_HANDLE")
          /\ lct' = [lct EXCEPT ![t] = NoCt]
          /\ UNCHANGED devCt
     ELSE /\ devCt' = ct
          /\ lct' = [lct EXCEPT ![t] = ct]
          /\ pc' = [pc EXCEPT ![t] = IF t \in Readers THEN "ReadFile" ELSE "WriteFile"]
          /\ UNCHANGED <<res, mutReaders>>
  /\ WinUnchangedPosix
  /\ UNCHANGED <<buflen, readDeadline, writeDeadline, rxAvail, txRoom,
                 closeCalls, released, releaseErr, handle, req,
                 cancelErr, histVars>>

\* case windows.ERROR_OPERATION_ABORTED: return 0, ErrPortClosed
AbortedResult_Raw == "ERROR_OPERATION_ABORTED"
AbortedResult == "ErrPortClosed"

\* the request of a ReadFile / WriteFile call is cancelled before the call
\* returns, by the CancelIoEx of a Close that runs alongside
CancelRacing == \E c \in Closers : pc[c] = "CancelIoEx"

\* windows.ReadFile(p.handle, b, &nul, p.ro): the request is started under the
\* device's current time-outs and takes what the driver has buffered.  Both
\* nil and ERROR_IO_PENDING lead on to the wait; any other error is returned.
WinReadFile(t) ==
  /\ t \in Readers
  /\ pc[t] = "ReadFile"
  /\ \/ /\ ~Valid
        /\ IoReturn(t, 0, "ERROR_INVALID_HANDLE")
        /\ UNCHANGED <<req, rxAvail, histVars>>
     \/ /\ Valid
        /\ IoReturn(t, 0, "ERROR_GEN_FAILURE")
        /\ hist' = [hist EXCEPT ![t] = IF @ = "fut" THEN "-" ELSE @]
        /\ UNCHANGED <<req, rxAvail>>
     \/ /\ Valid /\ CancelRacing
        /\ IoReturn(t, 0, AbortedResult)
        /\ UNCHANGED <<req, rxAvail, histVars>>
     \/ /\ Valid
        /\ UNCHANGED histVars
        /\ LET k == Min(rxAvail, buflen[t])
               arm == Armed(devCt.ReadTotalTimeoutMultiplier,
                            devCt.ReadTotalTimeoutConstant)
           IN /\ req' = [req EXCEPT ![t] = NewReq(buflen[t], k, arm)]
              /\ rxAvail' = rxAvail - k
        /\ pc' = [pc EXCEPT ![t] = "GetOverlappedResult"]
        /\ UNCHANGED <<res, mutReaders>>
  /\ WinUnchangedPosix
  /\ lct' = [lct EXCEPT ![t] = NoCt]
  /\ UNCHANGED <<buflen, readDeadline, writeDeadline, txRoom, closeCalls,
                 released, releaseErr, handle, devCt, timeout, cancelErr>>

\* windows.WriteFile(p.handle, b, &nul, p.wo): ERROR_OPERATION_ABORTED becomes
\* ErrPortClosed; after the switch every non-nil error, ERROR_IO_PENDING
\* included, is returned; only a nil error leads on to the wait.
WritePendingResult_Wait(t) ==
  /\ pc' = [pc EXCEPT ![t] = "GetOverlappedResult"]
  /\ UNCHANGED <<res, mutReaders>>
WritePendingResult(t) == IoReturn(t, 0, "ERROR_IO_PENDING")

WinWriteFile(t) ==
  /\ t \in Writers
  /\ pc[t] = "WriteFile"
  /\ \/ /\ ~Valid
        /\ IoReturn(t, 0, "ERROR_INVALID_HANDLE")
        /\ UNCHANGED <<req, txRoom, histVars>>
     \/ /\ Valid
        /\ IoReturn(t, 0, "ERROR_GEN_FAILURE")
        /\ hist' = [hist EXCEPT ![t] = IF @ = "fut" THEN "-" ELSE @]
        /\ UNCHANGED <<req, txRoom>>
     \/ /\ Valid /\ CancelRacing
        /\ IoReturn(t, 0, AbortedResult)
        /\ UNCHANGED <<req, txRoom, histVars>>
     \/ /\ Valid
        /\ UNCHANGED histVars
        /\ LET k == Min(txRoom, buflen[t])
               arm == Armed(devCt.WriteTotalTimeoutMultiplier,
                            devCt.WriteTotalTimeoutConstant)
           IN /\ req' = [req EXCEPT ![t] = NewReq(buflen[t], k, arm)]
              /\ txRoom' = txRoom - k
              /\ \/ \* the request completed at once: err == nil
                    /\ k = buflen[t]
                    /\ pc' = [pc EXCEPT ![t] = "GetOverlappedResult"]
                    /\ UNCHANGED <<res, mutReaders>>
                 \/ \* err == ERROR_IO_PENDING
                    WritePendingResult(t)
  /\ WinUnchangedPosix
  /\ lct' = [lct EXCEPT ![t] = NoCt]
  /\ UNCHANGED <<buflen, readDeadline, writeDeadline, rxAvail, closeCalls,
                 released, releaseErr, handle, devCt, timeout, cancelErr>>

\* windows.GetOverlappedResult(p.handle, o, &done, true) blocks until the
\* request has completed or was cancelled; then
\* if !deadline.IsZero() && int(done) < len(b) { return done, ErrDeadlineExceeded }
WinIoGetOverlappedResult(t, dl) ==
  /\ pc[t] = "GetOverlappedResult"
  /\ req[t].st \in {"done", "aborted"}
  /\ IF req[t].st = "aborted"
     THEN IoReturn(t, 0, AbortedResult)
     ELSE IF ~IsZero(dl) /\ req[t].n < buflen[t]
          THEN IoReturn(t, req[t].n, "ErrDeadlineExceeded")
          ELSE IoReturn(t, req[t].n, "nil")
  /\ req' = [req EXCEPT ![t] = NoReq]
  /\ WinUnchangedPosix
  /\ UNCHANGED <<buflen, readDeadline, writeDeadline, rxAvail, txRoom,
                 closeCalls, released, releaseErr, handle, devCt, lct, timeout,
                 cancelErr, histVars>>

WinReadCall(t) == t \in Readers /\ WinIoCall(t, readDeadline)
WinReadRLock(t) == t \in Readers /\ WinIoRLock(t)
WinReadGetCommTimeouts(t) == t \in Readers /\ WinIoGetCommTimeouts(t, readDeadline)
WinReadSetCommTimeouts(t) ==
  /\ t \in Readers
  /\ WinIoSetCommTimeouts(t, ReadTimeouts(lct[t], readDeadline, timeout[t]))
WinReadGetOverlappedResult(t) ==
  t \in Readers /\ WinIoGetOverlappedResult(t, readDeadline)

WinWriteCall(t) == t \in Writers /\ WinIoCall(t, writeDeadline)
WinWriteRLock(t) == t \in Writers /\ WinIoRLock(t)
WinWriteGetCommTimeouts(t) == t \in Writers /\ WinIoGetCommTimeouts(t, writeDeadline)
WinWriteSetCommTimeouts(t) ==
  /\ t \in Writers
  /\ WinIoSetCommTimeouts(t, WriteTimeouts(lct[t], writeDeadline, timeout[t]))
WinWriteGetOverlappedResult(t) ==
  t \in Writers /\ WinIoGetOverlappedResult(t, writeDeadline)

\* ------------------------------------------------- overlapped backend: Close
\* if p.handle == windows.InvalidHandle { return nil }
WinCloseCall(t) ==
  /\ t \in Closers
  /\ pc[t] = "idle"
  /\ IF handle = InvalidHandle
     THEN /\ pc' = [pc EXCEPT ![t] = "done"]
          /\ res' = [res EXCEPT ![t] = Result(0, "nil")]
     ELSE /\ pc' = [pc EXCEPT ![t] = "CancelIoEx"]
          /\ UNCHANGED res
  /\ hist' = [u \in Threads |->
        IF u = t
        THEN IF \E c \in Closers : pc[c] = "done" THEN "late" ELSE "-"
        ELSE IF u \in Closers \/ hist[u] = "after" THEN hist[u] ELSE "-"]
  /\ WinUnchangedPosix
  /\ UNCHANGED <<buflen, readDeadline, writeDeadline, mutReaders, rxAvail,
                 txRoom, closeCalls, released, releaseErr, winVars>>

\* cancelErr := windows.CancelIoEx(p.handle, nil)
WinCloseCancelIoEx(t) ==
  /\ t \in Closers
  /\ pc[t] = "CancelIoEx"
  /\ IF ~Valid
     THEN /\ cancelErr' = [cancelErr EXCEPT ![t] = "ERROR_INVALID_HANDLE"]
          /\ UNCHANGED req
     ELSE IF \E u \in IoThreads : req[u].st = "pending"
          THEN /\ cancelErr' = [cancelErr EXCEPT ![t] = "nil"]
               /\ req' = [u \in IoThreads |-> Abort(req[u])]
          ELSE /\ cancelErr' = [cancelErr EXCEPT ![t] = "ERROR_NOT_FOUND"]
               /\ UNCHANGED req
  /\ pc' = [pc EXCEPT ![t] = "CloseHandle"]
  /\ WinUnchangedPosix
  /\ UNCHANGED <<buflen, res, readDeadline, writeDeadline, mutReaders, rxAvail,
                 txRoom, closeCalls, released, releaseErr, handle, devCt, lct,
                 timeout, histVars>>

\* if err := windows.CloseHandle(p.handle); err != nil { return err }
\* A successful release cancels what is still pending on the handle.
WinCloseCloseHandle(t) ==
  /\ t \in Closers
  /\ pc[t] = "CloseHandle"
  /\ closeCalls' = CountUp(closeCalls)
  /\ \/ /\ ~Valid
        /\ pc' = [pc EXCEPT ![t] = "done"]
        /\ res' = [res EXCEPT ![t] = Result(0, "ERROR_INVALID_HANDLE")]
        /\ UNCHANGED <<released, releaseErr, req>>
     \/ /\ Valid
        /\ pc' = [pc EXCEPT ![t] = "done"]
        /\ res' = [res EXCEPT ![t] = Result(0, "ERROR_GEN_FAILURE")]
        /\ releaseErr' = "ERROR_GEN_FAILURE"
        /\ UNCHANGED <<released, req>>
     \/ /\ Valid
        /\ pc' = [pc EXCEPT ![t] = "setHandle"]
        /\ released' = TRUE
        /\ releaseErr' = "nil"
        /\ req' = [u \in IoThreads |-> Abort(req[u])]
        /\ UNCHANGED res
  /\ WinUnchangedPosix
  /\ UNCHANGED <<buflen, readDeadline, writeDeadline, mutReaders, rxAvail,
                 txRoom, handle, devCt, lct, timeout, cancelErr, histVars>>

\* p.handle = windows.InvalidHandle
\* if cancelErr != windows.ERROR_NOT_FOUND { return cancelErr }; return nil
WinCloseSetHandle(t) ==
  /\ t \in Closers
  /\ pc[t] = "setHandle"
  /\ handle' = InvalidHandle
  /\ pc' = [pc EXCEPT ![t] = "done"]
  /\ res' = [res EXCEPT ![t] =
        Result(0, IF cancelErr[t] # "ERROR_NOT_FOUND" THEN cancelErr[t] ELSE "nil")]
  /\ WinUnchangedPosix
  /\ UNCHANGED <<buflen, readDeadline, writeDeadline, mutReaders, rxAvail,
                 txRoom, closeCalls, released, releaseErr, devCt, lct, timeout,
                 req, cancelErr, histVars>>

\* --------------------------------------------- overlapped backend: the system
WinIoStep(t) ==
  \/ WinReadRLock(t) \/ WinReadGetCommTimeouts(t) \/ WinReadSetCommTimeouts(t)
  \/ WinReadFile(t) \/ WinReadGetOverlappedResult(t)
  \/ WinWriteRLock(t) \/ WinWriteGetCommTimeouts(t) \/ WinWriteSetCommTimeouts(t)
  \/ WinWriteFile(t) \/ WinWriteGetOverlappedResult(t)

WinStep(t) ==
  \/ WinIoStep(t)
  \/ WinCloseCancelIoEx(t) \/ WinCloseCloseHandle(t) \/ WinCloseSetHandle(t)

WinNext ==
  \/ Tick
  \/ LongElapse
  \/ DeviceDeliver
  \/ DeviceDrain
  \/ \E d \in Times : WinSetReadDeadline(d)
  \/ \E d \in Times : WinSetWriteDeadline(d)
  \/ \E t \in Threads : WinReadCall(t)
  \/ \E t \in Threads : WinWriteCall(t)
  \/ \E t \in Threads : WinCloseCall(t)
  \/ \E t \in Threads : WinStep(t)

\* On this backend Close takes no lock, so a run has a Read and a Write
\* side by side, or one of them with two Close calls.
WinScenarios == {{"r1", "w1"}, {"r1", "c1", "c2"}, {"w1", "c1", "c2"}}

SpecWin == InitOf(WinScenarios) /\ [][WinNext]_vars

\* Threads inside a call keep running and the clock advances; callers and
\* the device are under no obligation.
FairWin ==
  /\ InitOf(FairScenarios) /\ [][WinNext]_vars
  /\ WF_vars(Tick)
  /\ WF_vars(LongElapse)
  /\ \A t \in Threads : WF_vars(WinStep(t))

\* A Read and a Write side by side on a port that nobody closes; the caller
\* sets the deadlines before it starts the calls.
BothIdle == \A t \in IoThreads : pc[t] = "idle"

DuplexNext ==
  \/ Tick
  \/ LongElapse
  \/ DeviceDeliver
  \/ DeviceDrain
  \/ \E d \in Times : BothIdle /\ WinSetReadDeadline(d)
  \/ \E d \in Times : BothIdle /\ WinSetWriteDeadline(d)
  \/ \E t \in IoThreads : WinReadCall(t)
  \/ \E t \in IoThreads : WinWriteCall(t)
  \/ \E t \in IoThreads : WinIoStep(t)

FairWinDuplex ==
  /\ InitOf({{"r1", "w1"}}) /\ [][DuplexNext]_vars
  /\ WF_vars(Tick)
  /\ WF_vars(LongElapse)
  /\ \A t \in IoThreads : WF_vars(WinIoStep(t))

\* =========================================================================
\* Open: the configuration of the device (nativeOpen of both backends)
\* =========================================================================

\* the Configs a caller hands to Open: every supported value of a field,
\* its zero value and unsupported ones
Configs ==
  {Config(b, n, st, p) :
     b \in {0, 9600, 19200, 12345},
     n \in {0, 4, 5, 6, 7, 8, 9},
     st \in {StopBitsNil, StopBits1, StopBits2, 3},
     p \in {ParityNil, ParityNone, ParityOdd, ParityEven, 4}}

\* the blocks a device may hold before Open: every flag clear, every flag
\* set, exactly one set, exactly one clear; the scalar fields zero or not
DcbBits == 0..15
FlagWords(bits) ==
  {{}, bits} \cup {{b} : b \in bits} \cup {bits \ {b} : b \in bits}
Dcbs ==
  {Dcb(0, f, 0, 0, 0, 0) : f \in FlagWords(DcbBits)}
    \cup {Dcb(cbr9600, f, 7, oddParity, twoStopBits, 5) : f \in FlagWords(DcbBits)}

TtyBits == 0..15 \cup {31}
Ttys ==
  {Termios(c, i, l, o, v, v) :
     c \in {{}, TtyBits}, i \in {{}, TtyBits}, l \in {{}, TtyBits, unix.ICANON},
     o \in {{}, TtyBits}, v \in {0, 5}}

\* before Open: a device in some state, a Config chosen by the caller
InitConf ==
  /\ InitIo({{}})
  /\ conf \in Configs
  /\ \/ initDcb \in Dcbs /\ initTty = Tty0
     \/ initDcb = Dcb0 /\ initTty \in Ttys
  /\ devDcb = initDcb
  /\ devTty = initTty
  /\ openRes = [by |-> "none", err |-> "nil"]
  /\ setCalls = 0
  /\ devHandle = "none"

OpenResult(b, e) == [by |-> b, err |-> e]

\* overlapped nativeOpen: CreateFile, getCommState, the translators,
\* setCommState, newOverlapped; every error path is a bare `return nil, err`
WinOpen ==
  /\ openRes.by = "none"
  /\ \/ \* windows.CreateFile fails: there is no handle
        /\ openRes' = OpenResult("win", "ERROR_FILE_NOT_FOUND")
        /\ UNCHANGED <<devDcb, setCalls, devHandle>>
     \/ /\ devHandle' = "open"
        /\ \/ \* getCommState fails
              /\ openRes' = OpenResult("win", "ERROR_GEN_FAILURE")
              /\ UNCHANGED <<devDcb, setCalls>>
           \/ LET r == WinTranslate(devDcb, conf)
              IN IF r.err # "nil"
                 THEN /\ openRes' = OpenResult("win", r.err)
                      /\ UNCHANGED <<devDcb, setCalls>>
                 ELSE /\ setCalls' = setCalls + 1
                      /\ \/ /\ devDcb' = r.d
                            /\ \/ openRes' = OpenResult("win", "nil")
                               \/ \* newOverlapped fails
                                  openRes' = OpenResult("win", "newOverlapped")
                         \/ \* setCommState fails
                            /\ UNCHANGED devDcb
                            /\ openRes' = OpenResult("win", "ERROR_GEN_FAILURE")
  /\ UNCHANGED <<conf, initDcb, initTty, devTty, ioVars>>

\* polling nativeOpen: unix.Open, FcntlInt, IoctlGetTermios, the translators,
\* IoctlSetTermios, newPipe; every error path returns without unix.Close
PosixOpen ==
  /\ openRes.by = "none"
  /\ \/ \* unix.Open fails: there is no descriptor
        /\ openRes' = OpenResult("posix", "ENOENT")
        /\ UNCHANGED <<devTty, setCalls, devHandle>>
     \/ /\ devHandle' = "open"
        /\ \/ \* FcntlInt (F_GETFD or F_SETFD) fails
              /\ openRes' = OpenResult("posix", "EBADF")
              /\ UNCHANGED <<devTty, setCalls>>
           \/ \* IoctlGetTermios fails
              /\ openRes' = OpenResult("posix", "error getting termios")
              /\ UNCHANGED <<devTty, setCalls>>
           \/ LET r == PosixTranslate(devTty, conf)
              IN IF r.err # "nil"
                 THEN /\ openRes' = OpenResult("posix", r.err)
                      /\ UNCHANGED <<devTty, setCalls>>
                 ELSE /\ setCalls' = setCalls + 1
                      /\ \/ /\ devTty' = r.d
                            /\ \/ openRes' = OpenResult("posix", "nil")
                               \/ \* newPipe fails
                                  openRes' = OpenResult("posix", "newPipe")
                         \/ \* IoctlSetTermios fails
                            /\ UNCHANGED devTty
                            /\ openRes' = OpenResult("posix", "error setting termios")
  /\ UNCHANGED <<conf, initDcb, initTty, devDcb, ioVars>>

ConfNext == WinOpen \/ PosixOpen

SpecConf == InitConf /\ [][ConfNext]_vars

\* =================================================== polling backend: claims

\* C1: a Read (or Write) in flight with no deadline, to which the device
\* transfers nothing, returns ErrPortClosed once a concurrent Close has raised
\* the closing flag; every call in flight when the flag is up returns, and
\* every Close that has started returns: raising the flag before taking the
\* exclusive lock never deadlocks against the holder of the shared lock.
C1_CloseUnblocks ==
  /\ [](\A t \in IoThreads :
          pc[t] = "done" /\ hist[t] = "closed" => res[t].err = "ErrPortClosed")
  /\ \A t \in IoThreads : (InFlight(t) /\ closing) ~> (pc[t] = "done")
  /\ \A c \in Closers : CloseRunning(c) ~> (pc[c] = "done")

C1_Witness ==
  /\ pc["r1"] = "done" /\ hist["r1"] = "closed" /\ res["r1"].err = "ErrPortClosed"
  /\ pc["c1"] = "done" /\ released

\* C2: a Read blocked with no deadline and nothing to read, whose deadline is
\* then set to a non-zero time not in the future, makes at most one more
\* native call and returns DeadlineExceeded; it does not stay blocked.
C2_SetDeadlinePreempts ==
  /\ [](\A t \in IoThreads : hist[t] = "pre1" => pc[t] # "native")
  /\ [](\A t \in IoThreads :
          pc[t] = "done" /\ hist[t] \in {"pre", "pre1"}
            => res[t].err = "ErrDeadlineExceeded")
  /\ \A t \in IoThreads :
        (hist[t] \in {"pre", "pre1"})
          ~> (pc[t] = "done" \/ hist[t] \notin {"pre", "pre1"})

C2_Witness ==
  /\ pc["r1"] = "done" /\ hist["r1"] = "pre1"
  /\ res["r1"] = Result(0, "ErrDeadlineExceeded")

\* C4: a Read (Write) that begins on an open port whose deadline is non-zero
\* and in the past returns (0, DeadlineExceeded) and never reaches the native
\* call, whatever the device has ready.
C4_PastDeadlineNoNative ==
  \A t \in IoThreads :
    hist[t] = "past" =>
      /\ pc[t] \notin {"native", "Sleep"}
      /\ pc[t] = "done" => res[t] = Result(0, "ErrDeadlineExceeded")

C4_Witness ==
  /\ pc["r1"] = "done" /\ hist["r1"] = "past" /\ buflen["r1"] > 0 /\ rxAvail > 0
  /\ res["r1"] = Result(0, "ErrDeadlineExceeded")

\* C7: however the Close calls on one session interleave, exactly one of them
\* invokes the native release primitive.
C7_ExactlyOneRelease ==
  /\ closeCalls <= 1
  /\ (\E c \in Closers : pc[c] = "done") => closeCalls = 1

\* C8: when the native release of the real descriptor succeeds, every Close
\* call returns nil.
C8_EveryCloseNil ==
  releaseErr = "nil" =>
    \A c \in Closers : pc[c] = "done" => res[c].err = "nil"

\* C9: no native read/write is made on the descriptor once it is released,
\* and the native release runs only while no Read or Write holds the shared
\* lock.
C9_NoUseAfterRelease ==
  /\ \A t \in IoThreads : pc[t] = "native" => ~released /\ fd = OpenFd
  /\ \A c \in Closers : pc[c] \in {"unixClose", "setFd"} => mutReaders = {}

C9_Witness ==
  /\ released /\ pc["c1"] = "setFd"
  /\ \A t \in IoThreads :
       pc[t] = "done" /\ hist[t] = "closed" /\ res[t].err = "ErrPortClosed"


\* ================================================ overlapped backend: claims

\* C3: a Read (Write) blocked in its wait-for-completion with no deadline,
\* whose deadline is then set to a non-zero time not in the future, is
\* unblocked and returns DeadlineExceeded.
C3_InFlightDeadlineDetected ==
  \A t \in IoThreads :
    (hist[t] = "pre")
      ~> (\/ pc[t] = "done" /\ res[t].err = "ErrDeadlineExceeded"
          \/ hist[t] # "pre")

\* C5: a Read (Write) that begins while its deadline is non-zero and in the
\* past, by any number of milliseconds, returns (0, DeadlineExceeded) and
\* does not issue the asynchronous request.
C5_PastDeadlineNoRequest ==
  \A t \in IoThreads :
    hist[t] = "past" =>
      /\ pc[t] \notin {"SetCommTimeouts", "ReadFile", "WriteFile", "GetOverlappedResult"}
      /\ pc[t] = "done" => res[t] = Result(0, "ErrDeadlineExceeded")

\* C6: a Close call that begins after some Close call has returned returns
\* nil at once: it reaches no native cancel or release call and changes
\* nothing of the session.
C6_CloseIdempotent ==
  \A c \in Closers :
    hist[c] = "late" => pc[c] = "done" /\ res[c].err = "nil"

\* C10: the handle is released only while no Read or Write holds the shared
\* lock, and no Read or Write makes a native call on the handle after its
\* release.
C10_ReleaseExcludesIo ==
  /\ \A c \in Closers : pc[c] \in {"CloseHandle", "setHandle"} => mutReaders = {}
  /\ \A t \in IoThreads :
       pc[t] \in {"GetCommTimeouts", "SetCommTimeouts", "ReadFile", "WriteFile"}
         => ~released


\* ============================================== full duplex and data claims

\* C11: while no Close has been invoked, a Read or Write is never kept
\* waiting by the call of the other direction: it gets the shared lock and
\* takes each step of its loop whatever the other call is doing, and a call
\* that returns nil returns (len(b), nil).
C11_FullDuplex ==
  (\A c \in Closers : pc[c] \in {"idle", "off"}) =>
    \A t \in IoThreads :
      /\ pc[t] = "RLock" => ENABLED PosixIoRLock(t)
      /\ pc[t] \in {"isClosing", "deadlineExpired", "native"} => ENABLED PosixStep(t)
      /\ pc[t] = "done" /\ res[t].err = "nil" => res[t].n = buflen[t]

C11_Witness ==
  /\ \A c \in Closers : pc[c] \in {"idle", "off"}
  /\ Blocked("r1") /\ "r1" \in mutReaders /\ rxAvail = 0 /\ cnt["r1"] = 0
  /\ pc["w1"] = "done" /\ buflen["w1"] > 0
  /\ res["w1"] = Result(buflen["w1"], "nil")

\* C12: a Write whose request is reported as pending waits for the request's
\* completion; ERROR_IO_PENDING is never returned to the caller.
C12_PendingNeverReturned ==
  \A t \in IoThreads : pc[t] = "done" => res[t].err # "ERROR_IO_PENDING"

\* C13: a Read or Write returns a nil error only when n = len(b).
C13_NilOnlyWhenFull ==
  \A t \in IoThreads : pc[t] = "done" /\ res[t].err = "nil" => res[t].n = buflen[t]

\* bytes moved by the successful native calls of the call of t
Moved(t) == IF t \in Readers THEN rxPos ELSE Len(wire)

\* b[0..n) holds the first n bytes of the input stream (Read); the device
\* was handed exactly b[0..n) in order (Write)
PrefixMoved(t, n) ==
  IF t \in Readers
  THEN \A i \in 1..n : rbuf[t][i] = Stream(i)
  ELSE wire = [i \in 1..n |-> WBuf(i)]

\* C14: a Read/Write that returns DeadlineExceeded or ErrPortClosed returns
\* an n with 0 <= n <= len(b) that is the number of bytes its native calls
\* transferred, and those bytes are b[0..n) in transfer order.
C14_PartialResult ==
  \A t \in IoThreads :
    pc[t] = "done" /\ res[t].err \in {"ErrDeadlineExceeded", "ErrPortClosed"} =>
      /\ 0 <= res[t].n /\ res[t].n <= buflen[t]
      /\ res[t].n = Moved(t)
      /\ PrefixMoved(t, res[t].n)

C14_Witness ==
  /\ pc["r1"] = "done" /\ res["r1"] = Result(1, "ErrDeadlineExceeded")
  /\ buflen["r1"] = 2 /\ rxPos = 1 /\ rbuf["r1"][1] = Stream(1)

\* C15: a Read that returns (len(b), nil) has stored the next len(b) bytes of
\* the input stream in b, in order, none lost, duplicated or reordered; a
\* Write that returns (len(b), nil) has handed the device exactly b in order.
C15_RoundTrip ==
  \A t \in IoThreads :
    pc[t] = "done" /\ res[t].err = "nil" =>
      /\ Moved(t) = buflen[t]
      /\ PrefixMoved(t, buflen[t])

C15_Witness ==
  /\ pc["r1"] = "done" /\ res["r1"] = Result(MaxLen, "nil")
  /\ buflen["r1"] = MaxLen /\ MaxLen > 1
  /\ \A i \in 1..MaxLen : rbuf["r1"][i] = Stream(i)
  /\ pc["w1"] = "done" /\ res["w1"] = Result(MaxLen, "nil")
  /\ wire = [i \in 1..MaxLen |-> WBuf(i)]


\* ======================================================== configuration claims

\* C16: from every initial block the all-zero Config translates to exactly
\* the block of {19200, 8, StopBits1, ParityEven}: 19200 baud, 8 data bits,
\* one stop bit, even parity with parity checking enabled; Open with the zero
\* Config leaves that block in the device.
C16_DefaultConfig ==
  LET z == WinTranslate(initDcb, ZeroConfig)
      e == WinTranslate(initDcb, Config(19200, 8, StopBits1, ParityEven))
  IN /\ z = e
     /\ z.err = "nil"
     /\ z.d.BaudRate = cbr19200 /\ z.d.ByteSize = 8
     /\ z.d.StopBits = oneStopBit /\ z.d.Parity = evenParity
     /\ dcbfParity \subseteq z.d.Flags
     /\ termiosSetStopBits(initTty, StopBitsNil) = termiosSetStopBits(initTty, StopBits1)
     /\ termiosSetParity(initTty, ParityNil) = termiosSetParity(initTty, ParityEven)
     /\ openRes = OpenResult("win", "nil") /\ conf = ZeroConfig => devDcb = e.d

C16_Witness ==
  /\ openRes = OpenResult("win", "nil") /\ conf = ZeroConfig
  /\ initDcb.BaudRate = cbr9600 /\ initDcb.ByteSize = 7
  /\ initDcb.Parity = oddParity /\ initDcb.StopBits = twoStopBits
  /\ devDcb.BaudRate = cbr19200 /\ devDcb.ByteSize = 8
  /\ devDcb.Parity = evenParity /\ devDcb.StopBits = oneStopBit

\* C17: Open with a Config that has an unsupported field returns an error,
\* never invokes the native set-device-state call and leaves the device's
\* configuration as it was.
C17_InvalidConfigRejected ==
  LET Supported ==
        /\ conf.BaudRate \in
             DOMAIN (IF openRes.by = "win" THEN baudRates ELSE posixBaudRates)
        /\ conf.DataBits \in {0} \cup 5..8
        /\ conf.StopBits \in {StopBitsNil, StopBits1, StopBits2}
        /\ conf.Parity \in {ParityNil, ParityNone, ParityOdd, ParityEven}
  IN openRes.by \in {"win", "posix"} /\ ~Supported =>
       /\ openRes.err # "nil"
       /\ setCalls = 0
       /\ devDcb = initDcb /\ devTty = initTty

C17_Witness ==
  /\ openRes = OpenResult("win", "unsupported byte size")
  /\ conf.DataBits = 9 /\ conf.BaudRate = 9600
  /\ setCalls = 0 /\ devDcb = initDcb /\ initDcb.Flags = DcbBits

\* the flag bits the overlapped translator may change
DcbFrameBits ==
  dcbfBinary \cup dcbfParity \cup dcbfOutxCTSFlow \cup dcbfOutxDSRFlow
    \cup dcbfDTRControl \cup dcbfRTSControl \cup dcbfOutX \cup dcbfInX
    \cup dcbfErrorChar \cup dcbfNull

\* C18: the block a successful Open writes differs from the block read only
\* in the binary, parity-enable, flow-control, XON/XOFF, error-char and
\* null-strip bits and in BaudRate, ByteSize, Parity and StopBits.
C18_TranslatorFrame ==
  openRes = OpenResult("win", "nil") =>
    /\ (devDcb.Flags \ initDcb.Flags) \cup (initDcb.Flags \ devDcb.Flags)
         \subseteq DcbFrameBits
    /\ \A f \in {"DCBLength", "WReserved", "XonLim", "XoffLim", "XonChar",
                "XoffChar", "ErrorChar", "EOFChar", "EvtChar", "WReserved1"} :
         devDcb[f] = initDcb[f]

C18_Witness ==
  /\ openRes = OpenResult("win", "nil")
  /\ initDcb.Flags = DcbBits /\ initDcb.XonLim = 5
  /\ devDcb.Flags = DcbBits \ (DcbFrameBits \ (dcbfBinary \cup dcbfParity))
  /\ devDcb.XonLim = 5 /\ devDcb.BaudRate # initDcb.BaudRate

\* C19: after a successful Open the canonical-mode bit of the local-mode
\* flags written to the device is clear.
C19_CanonicalCleared ==
  openRes = OpenResult("posix", "nil") => unix.ICANON \cap devTty.Lflag = {}


\* C20: when the native release has failed, the Close that made it returned
\* the failure, and every Close that begins after a Close has returned
\* returns nil without invoking the native release again.
C20_ReleaseFailureOnce ==
  releaseErr \notin {"none", "nil"} =>
    /\ \A c \in Closers :
         pc[c] = "done" /\ hist[c] # "late" /\ res[c].err # "nil"
           => res[c].err \in {releaseErr, "EBADF", "ERROR_INVALID_HANDLE"}
    /\ \A c \in Closers : hist[c] = "late" => pc[c] = "done" /\ res[c].err = "nil"

\* ============================================= claims on calls after Close

\* C21: a Read or Write that begins after a Close call has returned returns
\* (0, ErrPortClosed) and reaches no native call, on either backend, whatever
\* the length of its buffer and its deadline.
C21_ClosedPortRejects ==
  \A t \in IoThreads :
    hist[t] = "after" =>
      /\ pc[t] \notin {"native", "Sleep", "GetCommTimeouts", "SetCommTimeouts",
                       "ReadFile", "WriteFile", "GetOverlappedResult"}
      /\ pc[t] = "done" => res[t] = Result(0, "ErrPortClosed")

\* C22: a Read with a non-empty buffer that begins on an open port with its
\* deadline non-zero and in the future, and to which no data arrives,
\* returns (0, DeadlineExceeded); it does not stay blocked.
C22_FutureDeadlineElapses ==
  /\ [](\A t \in Readers :
          pc[t] = "done" /\ hist[t] = "fut"
            => res[t] = Result(0, "ErrDeadlineExceeded"))
  /\ \A t \in Readers :
        (hist[t] = "fut") ~> (pc[t] = "done" \/ hist[t] # "fut")

\* ====================================================== claims on deadlines

\* C23: polling backend: while the read deadline is the zero value and no
\* Close has been invoked, a Read with a non-empty buffer to which no data
\* has arrived does not return: not with DeadlineExceeded, not with a nil
\* error, not with ErrPortClosed.
C23_ZeroDeadlineBlocks ==
  [][\A t \in Readers :
       (/\ pc[t] # "done" /\ pc'[t] = "done"
        /\ IsZero(readDeadline) /\ buflen[t] > 0
        /\ cnt[t] = 0 /\ rxAvail = 0
        /\ \A c \in Closers : pc[c] \in {"idle", "off"})
         => res'[t].err \notin {"ErrDeadlineExceeded", "nil", "ErrPortClosed"}]_vars

C23_Witness ==
  /\ pc["r1"] = "Sleep" /\ slept["r1"] /\ hist["r1"] = "-"
  /\ IsZero(readDeadline) /\ ~IsZero(writeDeadline)
  /\ buflen["r1"] = MaxLen /\ cnt["r1"] = 0 /\ rxAvail = 0
  /\ \A c \in Closers : pc[c] \in {"idle", "off"}

C25_NativeErrorKeepsCount ==
  \A t \in IoThreads :
    pc[t] = "done" /\ res[t].err = "EIO" =>
      /\ res[t].n = Moved(t)
      /\ 0 <= res[t].n /\ res[t].n <= buflen[t]

\* C26: polling backend: in every loop iteration the closed/closing test
\* comes first, then the deadline test, then the native call: the deadline
\* test is entered only from the closed test and the native call only from
\* the deadline test; and a call that stands at the closed test while the
\* port is closing or closed and its deadline has elapsed can only return
\* its accumulated bytes with ErrPortClosed.
C26_ClosedBeforeDeadline ==
  \A t \in IoThreads :
    /\ ~ENABLED (PosixStep(t) /\ pc'[t] = "deadlineExpired" /\ pc[t] # "isClosing")
    /\ ~ENABLED (PosixStep(t) /\ pc'[t] = "native" /\ pc[t] # "deadlineExpired")
    /\ pc[t] = "isClosing" /\ (closing \/ fd = ClosedFd)
          /\ DeadlineExpired(DeadlineOf(t))
        => /\ ENABLED PosixStep(t)
           /\ ~ENABLED (PosixStep(t)
                          /\ ~(/\ pc'[t] = "done"
                               /\ res'[t] = Result(cnt[t], "ErrPortClosed")))

C26_Witness ==
  /\ pc["r1"] = "isClosing" /\ cnt["r1"] = 1 /\ buflen["r1"] = MaxLen
  /\ closing /\ fd = OpenFd /\ DeadlineExpired(readDeadline)

\* =============================================== claims on cancellation

\* C27: overlapped backend: a Read or Write never returns the raw
\* cancellation result: a call whose request was cancelled returns
\* (0, ErrPortClosed); and a Close whose cancel step found nothing to cancel
\* (ERROR_NOT_FOUND) goes on and returns nil once the handle is released.
C27_CancellationIsPortClosed ==
  /\ \A t \in IoThreads :
       /\ pc[t] = "done" => res[t].err # "ERROR_OPERATION_ABORTED"
       /\ pc[t] = "GetOverlappedResult" /\ req[t].st = "aborted"
            => /\ ENABLED WinStep(t)
               /\ ~ENABLED (WinStep(t) /\ res'[t] # Result(0, "ErrPortClosed"))
  /\ \A c \in Closers :
       /\ pc[c] = "done" => res[c].err # "ERROR_NOT_FOUND"
       /\ pc[c] = "setHandle" /\ cancelErr[c] = "ERROR_NOT_FOUND"
            => /\ ENABLED WinStep(c)
               /\ ~ENABLED (WinStep(c) /\ res'[c].err # "nil")

C27_Witness ==
  /\ pc["r1"] = "GetOverlappedResult" /\ req["r1"].st = "aborted"
  /\ \E c \in Closers :
       /\ pc[c] = "setHandle" /\ cancelErr[c] = "ERROR_NOT_FOUND"
       /\ \E o \in Closers \ {c} : pc[o] = "CloseHandle" /\ cancelErr[o] = "nil"

\* ============================================================ claims on Open

\* C28: an Open that fails after the native device was opened has released
\* the handle / descriptor it obtained before it returns: a failed Open
\* leaves no open handle behind.
C28_FailedOpenReleases ==
  openRes.by \in {"win", "posix"} /\ openRes.err # "nil" => devHandle # "open"

\* C29: polling backend: the block a successful Open writes to the device
\* has hardware flow control off (CRTSCTS, bit 31 of c_cflag, clear) and
\* software flow control off (IXON, IXOFF, IXANY clear), whatever the device
\* held before.
C29_FlowControlOff ==
  LET CRTSCTS == {31}
  IN openRes = OpenResult("posix", "nil") =>
       /\ CRTSCTS \cap devTty.Cflag = {}
       /\ (unix.IXON \cup unix.IXOFF \cup unix.IXANY) \cap devTty.Iflag = {}

\* ====================================================== claims on time-outs

\* C30: overlapped backend: when a Read issues its request the read
\* time-out fields of the device's record are the ones this Read set, and
\* when a Write issues its request the write time-out fields are the ones
\* this Write set, whatever the call of the other direction does alongside.
C30_TimeoutsNotLost ==
  /\ \A t \in Readers :
       pc[t] = "ReadFile" =>
         \A f \in {"ReadIntervalTimeout", "ReadTotalTimeoutMultiplier",
                   "ReadTotalTimeoutConstant"} : devCt[f] = lct[t][f]
  /\ \A t \in Writers :
       pc[t] = "WriteFile" =>
         \A f \in {"WriteTotalTimeoutMultiplier", "WriteTotalTimeoutConstant"} :
           devCt[f] = lct[t][f]

====
